---- MODULE Spec2Model ----
(***************************************************************************)
(* Model of the rpc-websockets Client (src/src/lib/client.js): a JSON-RPC  *)
(* 2.0 client over a WebSocket transport.  The state is the Client's       *)
(* fields, the transport instances it has created, the pending reconnect   *)
(* timers, the outstanding send callbacks and the promises of its calls.   *)
(* Every event handler and every public method is one action.              *)
(***************************************************************************)
EXTENDS Integers, Sequences, FiniteSets, TLC

\* ---------------------------------------------------------------- bounds
MaxCalls == 2        \* calls that allocate an id
MaxSockets == 2      \* transport instances ever created
MaxNotifies == 1     \* notify sends awaiting their callback

\* ------------------------------------------------------------- constants
NormalClosure == 1000

\* ---------------------------------------------------------------- values
Undefined == "undefined"
Names == {"tick"}
\* the codes a transport closes with: normal, and abnormal (connection lost)
Codes == {NormalClosure, 1006}
\* max_reconnects as configured: 0 (unlimited), 1 and 2
Caps == {0, 1, 2}
Ids == 1..MaxCalls
Socks == 1..MaxSockets

\* JavaScript truthiness of a decoded JSON value (undefined and null are
\* falsy; the other values used here are non-empty strings or objects).
Truthy(v) == v \notin {Undefined, "null"}

\* The three inbound wire shapes, and a payload JSON.parse rejects.
\* id 0 is an id no call is ever allocated; a pushed notification carries
\* no id, which looks up the same missing key of the queue.
Responses ==
    [valid : {TRUE}, notification : {Undefined}, params : {<<>>},
     id : 0..MaxCalls, error : {Undefined}, result : {"a", "b"}]
ErrorResponses ==
    [valid : {TRUE}, notification : {Undefined}, params : {<<>>},
     id : 0..MaxCalls, error : {"null", "e"}, result : {Undefined}]
PushedNotifications ==
    [valid : {TRUE}, notification : Names, params : {<<>>, <<"a", "b">>},
     id : {0}, error : {Undefined}, result : {Undefined}]
Malformed ==
    [valid |-> FALSE, notification |-> Undefined, params |-> <<>>,
     id |-> 0, error |-> Undefined, result |-> Undefined]
Messages == Responses \cup ErrorResponses \cup PushedNotifications \cup {Malformed}

VARIABLES
    reconnect,           \* this.reconnect
    max_reconnects,      \* this.max_reconnects
    ready,               \* this.ready
    rpc_id,              \* this.rpc_id
    queue,               \* this.queue: id -> "undefined" | "pending" | "null"
    current_reconnects,  \* this.current_reconnects
    socket,              \* this.socket: the latest transport instance, 0 = none
    sock,                \* transport instance -> "none" | "connecting" | "open" | "closed"
    closeReq,            \* code passed to this.socket.close() while it was live, 0 = none
    timers,              \* pending setTimeout callbacks
    sending,             \* ids of the calls whose send callback is outstanding
    nsending,            \* notify sends whose callback is outstanding
    settles,             \* id -> the resolve/reject invocations of that call's promise
    listeners,           \* the event names with at least one attached listener
    emitted,             \* the last this.emit of the message handler, <<>> = none yet
    closed,              \* history: close() with the default code was invoked
    attempts             \* history: transports created by the timer since the last open

vars == <<reconnect, max_reconnects, ready, rpc_id, queue, current_reconnects,
          socket, sock, closeReq, timers, sending, nsending, settles,
          listeners, emitted, closed, attempts>>

config == <<reconnect, max_reconnects>>
registry == <<rpc_id, queue, sending, settles>>
transport == <<socket, sock, closeReq, timers>>

Live(s) == sock[s] \in {"connecting", "open"}

\* ------------------------------------------------------------ _connect
\* this.socket = new WebSocket(address, options)
Connect(n) ==
    /\ socket' = n
    /\ sock' = [sock EXCEPT ![n] = "connecting"]

\* ---------------------------------------------------------- constructor
Init ==
    /\ reconnect \in BOOLEAN
    /\ max_reconnects \in Caps
    /\ queue = [i \in Ids |-> Undefined]
    /\ rpc_id = 0
    /\ ready = FALSE
    /\ current_reconnects = 0
    /\ \E autoconnect \in BOOLEAN :
          IF autoconnect
          THEN /\ socket = 1
               /\ sock = [s \in Socks |-> IF s = 1 THEN "connecting" ELSE "none"]
          ELSE /\ socket = 0
               /\ sock = [s \in Socks |-> "none"]
    /\ closeReq = 0
    /\ timers = 0
    /\ sending = {}
    /\ nsending = 0
    /\ settles = [i \in Ids |-> <<>>]
    /\ listeners = {}
    /\ emitted = <<>>
    /\ closed = FALSE
    /\ attempts = 0

\* ----------------------------------------------------------------- call
SameRpcId(r) == r

NextRpcId(r) == r + 1

Call ==
    IF ~ready
    THEN UNCHANGED vars
    ELSE /\ rpc_id < MaxCalls
         /\ rpc_id' = NextRpcId(rpc_id)
         /\ sending' = sending \cup {rpc_id'}
         /\ UNCHANGED <<config, ready, queue, settles, current_reconnects,
                        transport, nsending, listeners, emitted, closed, attempts>>

\* the callback socket.send invokes for a call: `if (error) return
\* reject(error)`, and only past that return is the entry stored
RegistersAlways(error) == TRUE

Registers(error) == ~error

CallSentRejectsAll(id, error) ==
    /\ id \in sending
    /\ sending' = IF error THEN {} ELSE sending \ {id}
    /\ settles' = IF error
                  THEN [i \in Ids |-> IF i \in sending
                                      THEN Append(settles[i], <<"reject", "senderr">>)
                                      ELSE settles[i]]
                  ELSE settles
    /\ queue' = IF Registers(error)
                THEN [queue EXCEPT ![id] = "pending"]
                ELSE queue
    /\ UNCHANGED <<config, ready, rpc_id, current_reconnects, transport,
                   nsending, listeners, emitted, closed, attempts>>

CallSent(id, error) ==
    /\ id \in sending
    /\ sending' = sending \ {id}
    /\ settles' = IF error
                  THEN [settles EXCEPT ![id] = Append(@, <<"reject", "senderr">>)]
                  ELSE settles
    /\ queue' = IF Registers(error)
                THEN [queue EXCEPT ![id] = "pending"]
                ELSE queue
    /\ UNCHANGED <<config, ready, rpc_id, current_reconnects, transport,
                   nsending, listeners, emitted, closed, attempts>>

\* ------------------------------------------------ subscribe, unsubscribe
\* Both await this.call("rpc.on" | "rpc.off", [event]); the method and the
\* params are not part of the state, so their step is the step of call.
Subscribe(event) == Call

Unsubscribe(event) == Call

\* result[event] for the results a server sends here: "a" is the object
\* {tick: "ok"}, "b" is {tick: "failed"}; undefined has no properties and
\* reading one throws a TypeError.
Field(v, event) ==
    IF v = Undefined THEN "TypeError"
    ELSE IF v = "a" /\ event = "tick" THEN "ok"
    ELSE IF v = "b" /\ event = "tick" THEN "failed"
    ELSE Undefined

\* How the promise of subscribe(event) settles once the promise of its
\* call has settled with `settle`: a rejected call is rethrown by await, a
\* thrown TypeError or Error rejects, falling off the end resolves.
SubscribeAnyObject(settle, event) ==
    IF settle[1] = "reject" THEN settle
    ELSE IF Field(settle[2], event) = "TypeError" THEN <<"reject", "TypeError">>
    ELSE <<"resolve", Undefined>>

SubscribeSettles(settle, event) ==
    IF settle[1] = "reject" THEN settle
    ELSE IF Field(settle[2], event) = "TypeError" THEN <<"reject", "TypeError">>
    ELSE IF Field(settle[2], event) # "ok" THEN <<"reject", "Failed subscribing">>
    ELSE <<"resolve", Undefined>>

UnsubscribeSettles(settle, event) ==
    IF settle[1] = "reject" THEN settle
    ELSE IF Field(settle[2], event) = "TypeError" THEN <<"reject", "TypeError">>
    ELSE IF Field(settle[2], event) # "ok" THEN <<"reject", "Failed unsubscribing">>
    ELSE <<"resolve", Undefined>>

\* --------------------------------------------------------------- notify
NotifyWithId ==
    IF ~ready
    THEN UNCHANGED vars
    ELSE /\ nsending < MaxNotifies
         /\ rpc_id < MaxCalls
         /\ nsending' = nsending + 1
         /\ rpc_id' = rpc_id + 1
         /\ UNCHANGED <<config, ready, queue, sending, settles, current_reconnects,
                        transport, listeners, emitted, closed, attempts>>

Notify ==
    IF ~ready
    THEN UNCHANGED vars
    ELSE /\ nsending < MaxNotifies
         /\ nsending' = nsending + 1
         /\ UNCHANGED <<config, ready, registry, current_reconnects, transport,
                        listeners, emitted, closed, attempts>>

\* the callback socket.send invokes for a notify
NotifySent(error) ==
    /\ nsending > 0
    /\ nsending' = nsending - 1
    /\ UNCHANGED <<config, ready, registry, current_reconnects, transport,
                   listeners, emitted, closed, attempts>>

\* ---------------------------------------------------------------- close
\* this.socket.close(code || 1000, data), invoked with no code: a transport
\* that is connecting or open will close with the requested code; one that
\* has closed ignores the request.
DefaultCode == NormalClosure

Close(code) ==
    /\ socket # 0
    /\ closeReq' = IF Live(socket) /\ closeReq = 0 THEN code ELSE closeReq
    /\ closed' = (closed \/ code = NormalClosure)
    /\ UNCHANGED <<config, ready, registry, current_reconnects, socket, sock,
                   timers, nsending, listeners, emitted, attempts>>

\* ------------------------------------------------- EventEmitter.on(name)
On(n) ==
    /\ listeners' = listeners \cup {n}
    /\ UNCHANGED <<config, ready, registry, current_reconnects, transport,
                   nsending, emitted, closed, attempts>>

\* -------------------------------------------------------- "open" handler
OnOpenKeepsCount(s) ==
    /\ sock[s] = "connecting"
    /\ s = socket => closeReq = 0
    /\ sock' = [sock EXCEPT ![s] = "open"]
    /\ ready' = TRUE
    /\ attempts' = 0
    /\ UNCHANGED <<config, registry, current_reconnects, socket, closeReq, timers,
                   nsending, listeners, emitted, closed>>

OnOpen(s) ==
    /\ sock[s] = "connecting"
    /\ s = socket => closeReq = 0
    /\ sock' = [sock EXCEPT ![s] = "open"]
    /\ ready' = TRUE
    /\ current_reconnects' = 0
    /\ attempts' = 0
    /\ UNCHANGED <<config, registry, socket, closeReq, timers, nsending,
                   listeners, emitted, closed>>

\* ----------------------------------------------------- "message" handler
QueueAt(id) == IF id \in Ids THEN queue[id] ELSE Undefined

AnyName(name) == Truthy(name)

HasListeners(name) == Truthy(name) /\ name \in listeners

AlwaysResolve(m) == <<"resolve", m.result>>

Outcome(m) == IF Truthy(m.error) THEN <<"reject", m.error>>
                                 ELSE <<"resolve", m.result>>

\* this.emit(name) for empty params, this.emit.apply(this, [name, ...params])
\* otherwise: the event name followed by the params, one argument each
EmitNameOnly(m) == <<m.notification>>

EmitArgs(m) == <<m.notification>> \o m.params

NoTombstone == "pending"

Tombstone == "null"

\* catch (error) { return }: a payload JSON.parse rejects ends the handler
DiscardRaises == emitted' = <<"error">> /\ UNCHANGED <<queue, settles>>

Discard == UNCHANGED <<queue, settles, emitted>>

OnMessage(s, m) ==
    /\ sock[s] = "open"
    /\ UNCHANGED <<config, ready, rpc_id, sending, current_reconnects, transport,
                   nsending, listeners, closed, attempts>>
    /\ IF ~m.valid
       THEN Discard
       ELSE IF HasListeners(m.notification)
       THEN /\ emitted' = EmitArgs(m)
            /\ UNCHANGED <<queue, settles>>
       ELSE IF ~Truthy(QueueAt(m.id))
       THEN UNCHANGED <<queue, settles, emitted>>
       ELSE /\ settles' = [settles EXCEPT ![m.id] = Append(@, Outcome(m))]
            /\ queue' = [queue EXCEPT ![m.id] = Tombstone]
            /\ UNCHANGED emitted

\* ------------------------------------------------------- "error" handler
OnError(s) ==
    /\ Live(s)
    /\ UNCHANGED vars

\* ------------------------------------------------------- "close" handler
NeverNormal(code) == FALSE

IsNormalClosure(code) == code = NormalClosure

OnlyWhileUnderCap(n) == reconnect /\ max_reconnects > n

WheneverEnabled(n) == reconnect \/ max_reconnects = 0

ShouldReconnect(n) ==
    (reconnect /\ max_reconnects > n) \/ max_reconnects = 0

OnCloseRejectsPending(s, code) ==
    /\ Live(s)
    /\ s = socket => closeReq \in {0, code}
    /\ closeReq' = IF s = socket THEN 0 ELSE closeReq
    /\ sock' = [sock EXCEPT ![s] = "closed"]
    /\ ready' = FALSE
    /\ IF IsNormalClosure(code)
       THEN UNCHANGED <<current_reconnects, timers>>
       ELSE /\ current_reconnects' = current_reconnects + 1
            /\ timers' = IF ShouldReconnect(current_reconnects')
                         THEN timers + 1 ELSE timers
    /\ settles' = [i \in Ids |-> IF queue[i] = "pending"
                                  THEN Append(settles[i], <<"reject", "closed">>)
                                  ELSE settles[i]]
    /\ queue' = [i \in Ids |-> IF queue[i] = "pending" THEN Tombstone ELSE queue[i]]
    /\ UNCHANGED <<config, rpc_id, sending, socket, nsending, listeners,
                   emitted, closed, attempts>>

OnClose(s, code) ==
    /\ Live(s)
    /\ s = socket => closeReq \in {0, code}
    /\ closeReq' = IF s = socket THEN 0 ELSE closeReq
    /\ sock' = [sock EXCEPT ![s] = "closed"]
    /\ ready' = FALSE
    /\ IF IsNormalClosure(code)
       THEN UNCHANGED <<current_reconnects, timers>>
       ELSE /\ current_reconnects' = current_reconnects + 1
            /\ timers' = IF ShouldReconnect(current_reconnects')
                         THEN timers + 1 ELSE timers
    /\ UNCHANGED <<config, registry, socket, nsending, listeners,
                   emitted, closed, attempts>>

\* ------------------------------------ the setTimeout callback: _connect
TimerKept(t) == t

TimersAfterFire(t) == t - 1

OnTimer ==
    /\ timers > 0
    /\ socket < MaxSockets
    /\ timers' = TimersAfterFire(timers)
    /\ Connect(socket + 1)
    /\ closeReq' = 0
    /\ attempts' = attempts + 1
    /\ UNCHANGED <<config, ready, registry, current_reconnects,
                   nsending, listeners, emitted, closed>>

Next ==
    \/ Call
    \/ \E id \in Ids, error \in BOOLEAN : CallSent(id, error)
    \/ \E n \in Names : Subscribe(n)
    \/ \E n \in Names : Unsubscribe(n)
    \/ Notify
    \/ \E error \in BOOLEAN : NotifySent(error)
    \/ Close(DefaultCode)
    \/ \E n \in Names : On(n)
    \/ \E s \in Socks : OnOpen(s)
    \/ \E s \in Socks, m \in Messages : OnMessage(s, m)
    \/ \E s \in Socks : OnError(s)
    \/ \E s \in Socks, code \in Codes : OnClose(s, code)
    \/ OnTimer

Spec == Init /\ [][Next]_vars

\* ======================================================================
\* Properties
\* ======================================================================

\* The connection state of the data model, read off the transport the
\* client holds and the close it has requested on it.
ConnState ==
    IF socket = 0 \/ sock[socket] = "closed" THEN "Disconnected"
    ELSE IF sock[socket] = "connecting" THEN "Connecting"
    ELSE IF closeReq # 0 THEN "Closing"
    ELSE "Open"

AnyResponse == Responses \cup ErrorResponses

\* a step that changes the state (the properties below constrain these)
Changed == vars' # vars

\* C1 (as amended): a response carrying id i settles the pending call
\* registered under id i and no other call, whatever the arrival order: it
\* rejects that call with the error value when the error value is truthy,
\* and otherwise resolves it with the response's result.
C1_ResponseSettlesOwnCall ==
    [][Changed => \A s \in Socks, m \in AnyResponse :
          OnMessage(s, m) =>
             /\ \A j \in Ids \ {m.id} :
                   settles'[j] = settles[j] /\ queue'[j] = queue[j]
             /\ (m.id \in Ids /\ queue[m.id] = "pending") =>
                   settles'[m.id] =
                      Append(settles[m.id],
                             IF m.error \in {Undefined, "null"}
                             THEN <<"resolve", m.result>>
                             ELSE <<"reject", m.error>>)]_vars

\* C1 witness: call 2 was answered (with an error) before call 1, which is
\* still pending and untouched.
C1_Witness ==
    /\ MaxCalls >= 2
    /\ queue[1] = "pending" /\ settles[1] = <<>>
    /\ queue[2] = "null" /\ settles[2] = <<<<"reject", "e">>>>

\* C1 as stated: every response that has an error field rejects the call
\* with that error value.
C1_ErrorFieldRejects ==
    [][Changed => \A s \in Socks, m \in AnyResponse :
          (OnMessage(s, m) /\ m.id \in Ids /\ queue[m.id] = "pending") =>
             settles'[m.id] =
                Append(settles[m.id],
                       IF m.error = Undefined
                       THEN <<"resolve", m.result>>
                       ELSE <<"reject", m.error>>)]_vars

\* C2 as stated: with reconnection enabled and max_reconnects = N > 0, when
\* the client gives up (an abnormal closure schedules no retry) it has made
\* exactly N reconnection attempts since the transport was last open.
C2_ExactlyMaxAttempts ==
    [][Changed => \A s \in Socks, code \in Codes \ {NormalClosure} :
          (reconnect /\ max_reconnects > 0 /\ OnClose(s, code) /\ timers' = timers)
             => attempts = max_reconnects]_vars

\* C3 as stated: call and notify in any state other than Open allocate no
\* id, register nothing and start no send.
C3_NotOpenNoSend ==
    [][(Changed /\ ConnState # "Open" /\ (Call \/ Notify)) =>
          UNCHANGED <<rpc_id, queue, sending, nsending>>]_vars

\* C4 as stated: once close() with the default code has been invoked, no
\* new transport instance is created.
C4_NoTransportAfterClose ==
    [][closed => (socket' = socket /\ sock' \in {sock, [sock EXCEPT ![socket] = "closed"]})]_vars

\* C5: a transport close with code 1000 leaves the client Disconnected,
\* does not touch the attempt counter, schedules no timer and creates no
\* transport, whatever the reconnect policy.
C5_NormalClosureHalts ==
    [][Changed => \A s \in Socks :
          OnClose(s, NormalClosure) =>
             /\ ~ready'
             /\ sock'[s] = "closed"
             /\ (s = socket => ConnState' = "Disconnected")
             /\ current_reconnects' = current_reconnects
             /\ timers' = timers
             /\ socket' = socket
             /\ \A t \in Socks \ {s} : sock'[t] = sock[t]]_vars

\* C5 witness: under the unlimited policy, after an earlier failed attempt,
\* the transport has closed with 1000: nothing is scheduled and the counter
\* still shows the one failure.
C5_Witness ==
    /\ reconnect /\ max_reconnects = 0
    /\ socket >= 2 /\ sock[socket] = "closed"
    /\ timers = 0 /\ current_reconnects = 1 /\ ~ready

\* C6: with reconnection enabled and max_reconnects = 0, every closure
\* with a non-1000 code schedules a reconnection, however many consecutive
\* attempts have failed.
C6_UnlimitedAlwaysSchedules ==
    [][Changed => \A s \in Socks, code \in Codes \ {NormalClosure} :
          (reconnect /\ max_reconnects = 0 /\ OnClose(s, code)) =>
             timers' = timers + 1]_vars

\* C6 witness: every transport the model allows has failed in a row and a
\* retry is scheduled again.
C6_Witness ==
    /\ reconnect /\ max_reconnects = 0
    /\ current_reconnects = MaxSockets /\ attempts = MaxSockets - 1
    /\ timers = 1

\* C7: at most one transport is live, at most one timer is pending, never
\* both, and a transport is created only after every earlier one has closed.
C7_Sequential ==
    /\ Cardinality({s \in Socks : Live(s)}) <= 1
    /\ timers <= 1
    /\ timers > 0 => \A s \in Socks : ~Live(s)
    /\ \A s \in Socks : s < socket => sock[s] = "closed"
    /\ \A s \in Socks : s > socket => sock[s] = "none"

\* C7 witness: a retry is pending after an earlier retry has already run.
C7_Witness ==
    /\ timers = 1 /\ socket >= 2 /\ sock[socket] = "closed"

\* C8: a call's callbacks are invoked at most once, a tombstoned entry has
\* had exactly one, and a response whose id is tombstoned or was never
\* registered changes nothing.
C8_SettledAtMostOnce ==
    /\ [](\A i \in Ids :
             /\ Len(settles[i]) <= 1
             /\ queue[i] = "null" => Len(settles[i]) = 1
             /\ queue[i] = "pending" => settles[i] = <<>>)
    /\ [][Changed => \A s \in Socks, m \in AnyResponse :
             (OnMessage(s, m) /\ (m.id \notin Ids \/ queue[m.id] # "pending"))
                => UNCHANGED vars]_vars

\* C8 witness: call 1 has been settled and tombstoned on a transport that
\* is still open, where a duplicate of its response arrives.
C8_Witness ==
    /\ queue[1] = "null" /\ Len(settles[1]) = 1
    /\ ready /\ sock[socket] = "open"
    /\ ENABLED OnMessage(socket, [valid |-> TRUE, notification |-> Undefined,
                                  params |-> <<>>, id |-> 1,
                                  error |-> Undefined, result |-> "a"])

\* C9: ids are positive and strictly increasing: every id handed out is
\* larger than the counter before it, the counter never decreases (no
\* close, open or reconnection resets it), and every id in use is at most
\* the counter.
C9_IdsStrictlyIncrease ==
    /\ [](/\ sending \subseteq 1..rpc_id
          /\ \A i \in Ids : (queue[i] # Undefined \/ settles[i] # <<>>) => i <= rpc_id)
    /\ [][/\ rpc_id' >= rpc_id
          /\ \A i \in sending' \ sending : i = rpc_id' /\ i > rpc_id /\ i > 0]_vars

\* C9 witness: after a reconnection, on the second transport, id 2 has just
\* been allocated while call 1 is registered.
C9_Witness ==
    /\ socket >= 2 /\ sock[socket] = "open"
    /\ rpc_id = 2 /\ sending = {2} /\ queue[1] = "pending"

\* C10: a pushed notification whose name has no attached listener changes
\* nothing: no emit, no settlement, registry and connection state as before.
C10_UnheardNotificationDropped ==
    [][Changed => \A s \in Socks, m \in PushedNotifications :
          (OnMessage(s, m) /\ m.notification \notin listeners)
             => UNCHANGED vars]_vars

\* C10 witness: no listener is attached, a call is pending and the
\* transport is open, where such a notification arrives.
C10_Witness ==
    /\ listeners = {} /\ emitted = <<>>
    /\ socket # 0 /\ sock[socket] = "open" /\ \E i \in Ids : queue[i] = "pending"

\* C11: a pushed notification whose name has a listener is emitted in the
\* step that receives it, once, as the name followed by its params one
\* argument each (the name alone for empty params); nothing is emitted for
\* a name without listeners, and the registry is not consulted.
C11_ListenersGetParams ==
    /\ [](emitted # <<>> =>
             /\ emitted[1] \in listeners
             /\ \E p \in {<<>>, <<"a", "b">>} : emitted = <<emitted[1]>> \o p)
    /\ [][Changed => \A s \in Socks, m \in PushedNotifications :
             (OnMessage(s, m) /\ m.notification \in listeners) =>
                /\ emitted' = <<m.notification>> \o m.params
                /\ Len(emitted') = 1 + Len(m.params)
                /\ UNCHANGED <<rpc_id, queue, sending, settles>>]_vars

\* C11 witness: the listener of "tick" was last invoked with ("a", "b")
\* while a call is pending, which the notification left alone.
C11_Witness ==
    /\ "tick" \in listeners
    /\ emitted = <<"tick", "a", "b">>
    /\ \E i \in Ids : queue[i] = "pending"

\* C12: an entry is registered under a call's id only by the successful
\* send callback of that call; while the send is outstanding and after a
\* send error nothing is registered under the id, the send error is the
\* call's only settlement, and a later response with that id changes nothing.
C12_RegisteredAfterAck ==
    /\ [](\A i \in Ids :
             /\ i \in sending => queue[i] = Undefined /\ settles[i] = <<>>
             /\ (settles[i] # <<>> /\ settles[i][1] = <<"reject", "senderr">>) =>
                   queue[i] = Undefined /\ Len(settles[i]) = 1 /\ i \notin sending)
    /\ [][Changed => \A i \in Ids :
             /\ (queue[i] = Undefined /\ queue'[i] # Undefined) =>
                   i \in sending /\ CallSent(i, FALSE)
             /\ CallSent(i, TRUE) =>
                   /\ queue' = queue
                   /\ settles'[i] = <<<<"reject", "senderr">>>>]_vars

\* C12 witness: call 1 was rejected by a send error and has no entry, on a
\* transport that is open and can still deliver a response with id 1.
C12_Witness ==
    /\ settles[1] = <<<<"reject", "senderr">>>> /\ queue[1] = Undefined
    /\ ready /\ sock[socket] = "open"

\* C13: whatever way the call behind subscribe(e) or unsubscribe(e) has
\* settled, the subscribe (unsubscribe) promise resolves exactly when the
\* call resolved with a result holding "ok" under e (here the result "a"
\* for "tick"), and rejects in every other case.
C13_SubscribeNeedsOk ==
    \A i \in Ids, e \in Names :
       settles[i] # <<>> =>
          LET okAck == settles[i][1] = <<"resolve", "a">> /\ e = "tick"
              sub == SubscribeSettles(settles[i][1], e)
              unsub == UnsubscribeSettles(settles[i][1], e)
          IN  /\ sub[1] = IF okAck THEN "resolve" ELSE "reject"
              /\ unsub[1] = IF okAck THEN "resolve" ELSE "reject"

\* C13 witness: one call was acknowledged with {tick: "ok"}, the other
\* with {tick: "failed"}.
C13_Witness ==
    /\ settles[1] = <<<<"resolve", "a">>>>
    /\ settles[2] = <<<<"resolve", "b">>>>

C15_AttemptCounter ==
    [][Changed =>
          /\ (\E s \in Socks : OnOpen(s)) => current_reconnects' = 0
          /\ (\E s \in Socks, code \in Codes \ {NormalClosure} : OnClose(s, code))
                => current_reconnects' = current_reconnects + 1
          /\ current_reconnects' # current_reconnects =>
                \/ \E s \in Socks : OnOpen(s)
                \/ \E s \in Socks, code \in Codes \ {NormalClosure} : OnClose(s, code)]_vars

\* C15 witness: the second transport, created after a counted failure, has
\* opened and the counter is back at 0.
C15_Witness ==
    /\ socket >= 2 /\ sock[socket] = "open" /\ ready
    /\ current_reconnects = 0

\* C16 as stated: with reconnection disabled no reconnection timer is ever
\* scheduled and no transport is created beyond the constructor's, whatever
\* max_reconnects is.
C16_DisabledNeverReconnects ==
    ~reconnect => (timers = 0 /\ socket <= 1)

\* C17: a send failure rejects the one operation whose send failed and does
\* nothing else: the ready flag, the attempt counter, the transports, the
\* retry timers and the registry entries are as before, every other call's
\* settlements and sends in flight are as before, and a failed notify changes
\* nothing but its own send.
C17_SendFailureIsLocal ==
    [][Changed =>
          /\ \A id \in Ids : CallSent(id, TRUE) =>
                /\ settles'[id] = Append(settles[id], <<"reject", "senderr">>)
                /\ \A j \in Ids \ {id} : settles'[j] = settles[j]
                /\ sending' = sending \ {id}
                /\ queue' = queue
                /\ ready' = ready
                /\ current_reconnects' = current_reconnects
                /\ UNCHANGED <<transport, rpc_id, nsending>>
          /\ NotifySent(TRUE) =>
                UNCHANGED <<ready, current_reconnects, transport, registry>>]_vars

C17_Witness ==
    /\ ready /\ socket = 1 /\ sock[1] = "open" /\ timers = 0
    /\ current_reconnects = 0
    /\ queue[1] = "pending" /\ settles[1] = <<>>
    /\ settles[2] = <<<<"reject", "senderr">>>>
    /\ queue[2] = Undefined

\* C18: the close of a transport and the reconnection that follows it (the
\* retry timer firing, the new transport opening) settle no call, remove or
\* alter no registry entry, and send nothing: no request id is drawn and no
\* send is put in flight, so a registered call is not retransmitted.
C18_CloseKeepsPendingCalls ==
    [][( /\ Changed
         /\ \/ \E s \in Socks, code \in Codes : OnClose(s, code)
            \/ OnTimer
            \/ \E s \in Socks : OnOpen(s) )
          => UNCHANGED <<queue, settles, sending, rpc_id, nsending>>]_vars

C18_Witness ==
    /\ socket >= 2 /\ sock[socket] = "open" /\ ready
    /\ sock[1] = "closed"
    /\ queue[1] = "pending" /\ settles[1] = <<>>
    /\ sending = {}

\* C19: a payload that is not valid JSON is discarded: its arrival changes
\* nothing at all (no call settles, no entry changes, nothing is emitted, the
\* transport stays open), so the messages that follow it are handled exactly
\* as they would have been: a response to a call still pending can still be
\* delivered right after it.
C19_MalformedIsDiscarded ==
    [][\A s \in Socks :
          (Changed /\ OnMessage(s, Malformed)) => UNCHANGED vars]_vars

C19_Witness ==
    /\ ready /\ socket # 0 /\ sock[socket] = "open"
    /\ \E id \in Ids : queue[id] = "pending" /\ settles[id] = <<>>
    /\ listeners # {}
    /\ emitted # <<>>
    /\ ENABLED (\E s \in Socks : OnMessage(s, Malformed))

\* ----------------------------------------------------------------------
\* The client when no transport opens again once one has closed with a code
\* other than 1000: the "open" handler runs only while no abnormal closure
\* has been counted since the last open. Everything else is as in Next.
\* Fairness: a retry timer that setTimeout has armed fires after
\* reconnect_interval, and every transport of the retry loop ends in a
\* "close" event.
AfterAbnormalClosure == current_reconnects > 0

NextNoReopen ==
    \/ Call
    \/ \E id \in Ids, error \in BOOLEAN : CallSent(id, error)
    \/ \E n \in Names : Subscribe(n)
    \/ \E n \in Names : Unsubscribe(n)
    \/ Notify
    \/ \E error \in BOOLEAN : NotifySent(error)
    \/ Close(DefaultCode)
    \/ \E n \in Names : On(n)
    \/ \E s \in Socks : ~AfterAbnormalClosure /\ OnOpen(s)
    \/ \E s \in Socks, m \in Messages : OnMessage(s, m)
    \/ \E s \in Socks : OnError(s)
    \/ \E s \in Socks, code \in Codes : OnClose(s, code)
    \/ OnTimer

SpecNoReopen ==
    /\ Init
    /\ [][NextNoReopen]_vars
    /\ WF_vars(OnTimer)
    /\ WF_vars(\E s \in Socks, code \in Codes :
                  AfterAbnormalClosure /\ OnClose(s, code))

\* Disconnected, with no transport connecting or open and no retry timer.
Quiescent ==
    /\ ~ready
    /\ timers = 0
    /\ \A s \in Socks : ~Live(s)

\* C20: with reconnection enabled and max_reconnects > 0, once a transport
\* has closed with a code other than 1000 and no transport opens again, the
\* retry loop ends: the client comes to be disconnected with no live
\* transport and no retry timer, and remains so from then on.
C20_RetryLoopTerminates ==
    (reconnect /\ max_reconnects > 0 /\ AfterAbnormalClosure) ~> []Quiescent

C20_Witness ==
    /\ reconnect /\ max_reconnects = 2
    /\ current_reconnects = 2
    /\ socket = 2 /\ sock[1] = "closed" /\ sock[2] = "closed"
    /\ ~closed
    /\ Quiescent

====
